---- MODULE Spec2Model ----
(***************************************************************************)
(* Model of the "This Day in History" event generation pipeline            *)
(* (tdih/main.py), its content request services (tdih/services.py,         *)
(* tdih/ai_services.py) and the local event store (tdih/storage.py).       *)
(*                                                                         *)
(* Conventions                                                             *)
(*   - An optional value (Python None | value) is the empty tuple <<>> or  *)
(*     a one-element tuple <<value>>.                                      *)
(*   - A path is the tuple of its components, relative to root_path; the   *)
(*     process runs with root_path as working directory.                   *)
(*   - The file system is a record [dirs, files]: the set of directories   *)
(*     and a function from file paths to contents.                         *)
(*   - The Event class used by main.py and storage.py (keyword construction*)
(*     with id and date, model_dump_json, model_validate_json) is the      *)
(*     pydantic record of the data model; NewEvent, model_dump_json and    *)
(*     model_validate_json are written from that data model.               *)
(***************************************************************************)
EXTENDS Integers, Sequences, FiniteSets, TLC

\* ------------------------------------------------------------------ bounds
MaxNumEvents == 3
MaxSegments == 2
MaxImages == 2
MaxStoreCalls == 2
MaxServiceCalls == 2
MaxRuns == 2
MaxCreatedEvents == 3

\* --------------------------------------------------------- program constants
DefaultMaxNumImages == 5
DefaultNumEvents == 2
\* id: uuid.UUID = uuid.uuid4() in the body of the class Event: the default
\* is the one identifier drawn when the class is defined
DefaultEventId == 1

\* ------------------------------------------------------------ value domains
None == <<>>
Some(x) == <<x>>
IsNone(o) == o = <<>>
Get(o) == o[1]

Texts == {"t1", "t2"}
Dates == {[year |-> 2024, month |-> 1, day |-> 1],
          [year |-> 2024, month |-> 1, day |-> 2]}
UUIDs == 1..2
\* f"image_{j}.png" and the positional prefix f"{i}_{name}"
ImageName(j) == <<"image", j, "png">>
IndexedName(i, name) == <<i, name>>
ImageNames == {IndexedName(k, ImageName(0)) : k \in 0..1}

\* str(datetime.date): the ISO form, year-month-day
StrOfDate(d) == <<d.year, d.month, d.day>>
DateOfStr(s) == [year |-> s[1], month |-> s[2], day |-> s[3]]
\* str(uuid.UUID)
StrOfUUID(u) == <<"uuid", u>>
UUIDOfStr(s) == s[2]

\* A BytesIO buffer: its bytes and its name attribute
Buffer(bytes, name) == [bytes |-> bytes, name |-> name]

\* --------------------------------------------------------------- file system
Parent(p) == SubSeq(p, 1, Len(p) - 1)
Prefixes(p) == {SubSeq(p, 1, k) : k \in 1..Len(p)}

\* os.makedirs(dir, exist_ok=True)
makedirs(fs, dir) == [fs EXCEPT !.dirs = @ \cup Prefixes(dir)]

\* open(path, "w") / open(path, "wb") succeeds only in an existing directory
CanOpen(fs, path) == Parent(path) \in fs.dirs

\* a write that leaves an existing file as it is
WriteFileKeepExisting(fs, path, content) ==
    [fs EXCEPT !.files = @ @@ (path :> content)]

\* with open(path, "w") as f: f.write(content)
WriteFile(fs, path, content) ==
    [fs EXCEPT !.files = (path :> content) @@ @]

\* open(path, "w") truncates the file before anything is written to it
Truncate(fs, path) == WriteFile(fs, path, <<>>)

events_path == <<"videos">>

EmptyFS == [dirs |-> {events_path}, files |-> <<>>]

\* ------------------------------------------------------------- Event record
NewEvent(id, date) ==
    [id |-> id, date |-> date,
     text |-> None, title |-> None, description |-> None, tags |-> None,
     text_file_path |-> None, tts_file_path |-> None, tts_duration |-> None,
     transcription |-> None, transcription_file_path |-> None,
     images_paths |-> None, video_file_path |-> None]

OptPathStr(o) == IF IsNone(o) THEN None ELSE Some(<<"path", Get(o)>>)
OptPathOfStr(o) == IF IsNone(o) THEN None ELSE Some(Get(o)[2])
OptPathsStr(o) ==
    IF IsNone(o) THEN None
    ELSE Some([k \in 1..Len(Get(o)) |-> <<"path", Get(o)[k]>>])
OptPathsOfStr(o) ==
    IF IsNone(o) THEN None
    ELSE Some([k \in 1..Len(Get(o)) |-> Get(o)[k][2]])

\* Event.model_dump_json: the JSON document of the full record
model_dump_json(e) ==
    <<"json",
      [id |-> StrOfUUID(e.id), date |-> StrOfDate(e.date),
       text |-> e.text, title |-> e.title, description |-> e.description,
       tags |-> e.tags,
       text_file_path |-> OptPathStr(e.text_file_path),
       tts_file_path |-> OptPathStr(e.tts_file_path),
       tts_duration |-> e.tts_duration,
       transcription |-> e.transcription,
       transcription_file_path |-> OptPathStr(e.transcription_file_path),
       images_paths |-> OptPathsStr(e.images_paths),
       video_file_path |-> OptPathStr(e.video_file_path)]>>

\* A document parses when it is a complete JSON object
IsValidJson(c) == Len(c) = 2 /\ c[1] = "json"

\* Event.model_validate_json on a document that parses
model_validate_json(c) ==
    LET j == c[2] IN
    [id |-> UUIDOfStr(j.id), date |-> DateOfStr(j.date),
     text |-> j.text, title |-> j.title, description |-> j.description,
     tags |-> j.tags,
     text_file_path |-> OptPathOfStr(j.text_file_path),
     tts_file_path |-> OptPathOfStr(j.tts_file_path),
     tts_duration |-> j.tts_duration,
     transcription |-> j.transcription,
     transcription_file_path |-> OptPathOfStr(j.transcription_file_path),
     images_paths |-> OptPathsOfStr(j.images_paths),
     video_file_path |-> OptPathOfStr(j.video_file_path)]

\* ---------------------------------------------------- LocalEventsFileStorage
\* Every operation returns [fs, ret, exc]: the file system after the call,
\* the returned value and the exception raised ("none" when it returned).
Result(fs, ret, exc) == [fs |-> fs, ret |-> ret, exc |-> exc]

\* pathlib.Path(__file__).parent.parent: the absolute path of the project
root_path == <<"/", "project">>

\* PurePath.relative_to(other), for a path that lies under other
relative_to(path, other) == SubSeq(path, Len(other) + 1, Len(path))

\* get_event_path without relative_to(self.root_path)
get_event_path_absolute(date_str, event_id) ==
    root_path \o events_path \o <<date_str, StrOfUUID(event_id)>>

\* self.events_path is <root_path>/videos (config.py:82)
get_event_path(date_str, event_id) ==
    relative_to(root_path \o events_path \o <<date_str, StrOfUUID(event_id)>>,
                root_path)
get_event_text_path(date_str, event_id) ==
    get_event_path(date_str, event_id) \o <<"text.txt">>
get_event_tts_path(date_str, event_id) ==
    get_event_path(date_str, event_id) \o <<"tts.mp3">>
get_event_transcription_path(date_str, event_id) ==
    get_event_path(date_str, event_id) \o <<"transcription.json">>
get_event_images_path(date_str, event_id, image_name) ==
    get_event_path(date_str, event_id) \o <<"images", image_name>>
get_event_video_path(date_str, event_id) ==
    get_event_path(date_str, event_id) \o <<"video.mp4">>

dump_event(fs, event) ==
    LET filename == get_event_path(StrOfDate(event.date), event.id)
                        \o <<"event.json">>
    IN  IF ~CanOpen(fs, filename)
        THEN Result(fs, None, "FileNotFoundError")
        ELSE Result(WriteFile(fs, filename, model_dump_json(event)),
                    None, "none")

\* the files matched by events_path.glob(f"{date_str}/*/event.json")
EventFiles(fs, date_str) ==
    {p \in DOMAIN fs.files :
        /\ Len(p) = Len(events_path) + 3
        /\ SubSeq(p, 1, Len(events_path)) = events_path
        /\ p[Len(events_path) + 1] = date_str
        /\ p[Len(p)] = "event.json"}

\* The returned list is in glob (directory) order: modelled as the set of
\* its elements.
load_events(fs, date_str) ==
    LET matched == EventFiles(fs, date_str) IN
    IF \E p \in matched : ~IsValidJson(fs.files[p])
    THEN Result(fs, None, "ValidationError")
    ELSE Result(fs, {model_validate_json(fs.files[p]) : p \in matched}, "none")

save_event_text(fs, date_str, event_id, text) ==
    LET filename == get_event_text_path(date_str, event_id) IN
    Result(WriteFile(makedirs(fs, Parent(filename)), filename, <<"text", text>>),
           filename, "none")

\* tts is None or Some(buffer); "not tts" is true of None only: a BytesIO
\* object is truthy whatever it holds
save_event_tts(fs, date_str, event_id, tts) ==
    IF IsNone(tts)
    THEN Result(fs, None, "ValueError")
    ELSE LET filename == get_event_tts_path(date_str, event_id) IN
         Result(WriteFile(makedirs(fs, Parent(filename)), filename,
                          <<"bytes", Get(tts).bytes>>),
                filename, "none")

save_event_transcription(fs, date_str, event_id, transcription) ==
    LET filename == get_event_transcription_path(date_str, event_id) IN
    Result(WriteFile(makedirs(fs, Parent(filename)), filename,
                     <<"json", transcription>>),
           filename, "none")

RECURSIVE save_event_images_loop(_, _, _, _, _)
save_event_images_loop(fs, date_str, event_id, images, images_paths) ==
    IF images = <<>>
    THEN Result(fs, images_paths, "none")
    ELSE LET image_buffer == Head(images)
             filename == get_event_images_path(date_str, event_id,
                                               image_buffer.name)
         IN  save_event_images_loop(
                 WriteFile(makedirs(fs, Parent(filename)), filename,
                           <<"bytes", image_buffer.bytes>>),
                 date_str, event_id, Tail(images),
                 Append(images_paths, filename))

\* save_event_images returning its paths in reverse order
save_event_images_reversed(fs, date_str, event_id, images) ==
    LET r == save_event_images_loop(fs, date_str, event_id, images, <<>>)
    IN  Result(r.fs, [k \in 1..Len(r.ret) |-> r.ret[Len(r.ret) + 1 - k]], r.exc)

save_event_images(fs, date_str, event_id, images) ==
    save_event_images_loop(fs, date_str, event_id, images, <<>>)

\* ------------------------------------------------------------------- state
VARIABLES
    settings,        \* Settings: num_events, max_num_images_per_video, today
    approve,         \* args.approve of generate_events
    pc,              \* position of generate_events
    exc,             \* the exception that ended the run ("none" while running)
    i,               \* loop index of generate_events
    today_texts,     \* texts generated so far in this run
    text,            \* the text of the current slot
    event,           \* the Event being generated (None before it is created)
    tts_buffer,      \* the speech buffer of the current event
    images_buffers,  \* images generated so far for the current event
    calls,           \* provider requests and operator prompts issued, in order
    uuid_count,      \* number of ids drawn from uuid.uuid4()
    fs,              \* the file system below root_path
    last,            \* the last store or service call and its result
    events,          \* generate_videos: the loaded events not yet rendered
    env              \* the environment Settings is loaded from

vars == <<settings, approve, pc, exc, i, today_texts, text, event, tts_buffer,
          images_buffers, calls, uuid_count, fs, last, events, env>>

Today == [year |-> 2024, month |-> 1, day |-> 1]

ImageCaps == {1, DefaultMaxNumImages}
Answers == {"y", "Y", "n"}

\* str.lower() on the operator's answer
Lower(s) == IF s = "Y" THEN "y" ELSE IF s = "N" THEN "n" ELSE s

\* str.strip() on a provider reply [sp, s]: s surrounded by sp blanks
strip(reply) == reply.s

\* The provider's verbose transcript with n timed segments
Transcript(n) ==
    [duration |-> n,
     segments |-> [k \in 1..n |-> [start |-> k - 1, end |-> k, text |-> k]]]

Title == <<"Moon", "Landing">>
Description == "First steps"
TagsReply == <<[sp |-> 0, s |-> "Apollo"], [sp |-> 1, s |-> "Moon"]>>
ImageBytes == <<7>>
\* the body of a 200 response of the speech provider
SpeechReplies == {<<8>>}

\* a provider request or operator prompt: the service, the loop index, the
\* argument and the reply (None when the call raised)
Call(svc, slot, arg, ret) == [svc |-> svc, slot |-> slot, arg |-> arg, ret |-> ret]

\* a store call: its number, operation, arguments, returned value, exception
\* and whether it left the file system as it was
StoreCall(n, op, args, res, unchanged) ==
    [n |-> n, op |-> op, args |-> args, ret |-> res.ret, exc |-> res.exc,
     unchanged |-> unchanged]

\* the environment of a process whose settings are already loaded
NoEnv == <<>>

NoCall == StoreCall(0, "none", <<>>, Result(EmptyFS, None, "none"), TRUE)

Init ==
    /\ settings \in [num_events : 1..MaxNumEvents,
                     max_num_images_per_video : ImageCaps,
                     today : {Today}]
    /\ approve \in BOOLEAN
    /\ pc = "text"
    /\ exc = "none"
    /\ i = 0
    /\ today_texts = <<>>
    /\ text = None
    /\ event = None
    /\ tts_buffer = None
    /\ images_buffers = <<>>
    /\ calls = <<>>
    /\ uuid_count = 0
    /\ fs = EmptyFS
    /\ last = NoCall
    /\ events = {}
    /\ env = NoEnv

\* ------------------------------------------------- content request services
\* TagsRequestService.get_tags: [tag.strip() for tag in tags.split(",")]
get_tags(reply) == [k \in 1..Len(reply) |-> strip(reply[k])]

\* ImageRequestService.multiple_from_transcription: number of images requested
images_num_uncapped(transcription) ==
    Len(transcription.segments)

\* images_num of multiple_from_transcription
images_num(transcription) ==
    IF Len(transcription.segments) > settings.max_num_images_per_video
    THEN settings.max_num_images_per_video
    ELSE Len(transcription.segments)

\* ---------------------------------------------------------- generate_events
Raise(e) ==
    /\ pc' = "raised"
    /\ exc' = e

\* the for loop goes on to its next iteration, or ends
\* Continue that starts the same slot again
ContinueSameSlot ==
    /\ i' = i
    /\ pc' = "text"
    /\ exc' = exc

\* continue / the end of the loop body: the next i of range(num_events)
Continue ==
    /\ i' = i + 1
    /\ pc' = IF i + 1 < settings.num_events THEN "text" ELSE "done"
    /\ exc' = exc

\* RequestText without today_texts.append(text)
RequestTextNoAppend ==
    /\ pc = "text"
    /\ \/ \E reply \in {[sp |-> 1, s |-> t] : t \in Texts} :
            /\ calls' = Append(calls, Call("text", i, today_texts,
                                           Some(strip(reply))))
            /\ text' = Some(strip(reply))
            /\ today_texts' = today_texts
            /\ pc' = IF approve THEN "approve" ELSE "create"
            /\ exc' = exc
       \/ /\ calls' = Append(calls, Call("text", i, today_texts, None))
          /\ Raise("APIError")
          /\ UNCHANGED <<text, today_texts>>
    /\ UNCHANGED <<events, env, settings, approve, i, event, tts_buffer, images_buffers,
                   uuid_count, fs, last>>

\* text_service.get_completion(...) ; today_texts.append(text)
RequestText ==
    /\ pc = "text"
    /\ \/ \E reply \in {[sp |-> 1, s |-> t] : t \in Texts} :
            /\ calls' = Append(calls, Call("text", i, today_texts,
                                           Some(strip(reply))))
            /\ text' = Some(strip(reply))
            /\ today_texts' = Append(today_texts, strip(reply))
            /\ pc' = IF approve THEN "approve" ELSE "create"
            /\ exc' = exc
       \/ /\ calls' = Append(calls, Call("text", i, today_texts, None))
          /\ Raise("APIError")
          /\ UNCHANGED <<text, today_texts>>
    /\ UNCHANGED <<events, env, settings, approve, i, event, tts_buffer, images_buffers,
                   uuid_count, fs, last>>

\* Approve without the continue of a rejected slot
ApproveNoContinue ==
    /\ pc = "approve"
    /\ \E is_approved \in Answers :
         /\ calls' = Append(calls, Call("input", i, Get(text), Some(is_approved)))
         /\ pc' = "create"
         /\ UNCHANGED <<i, exc>>
    /\ UNCHANGED <<events, env, settings, approve, today_texts, text, event, tts_buffer,
                   images_buffers, uuid_count, fs, last>>

\* is_approved = input(...) ; if is_approved.lower() != "y": continue
Approve ==
    /\ pc = "approve"
    /\ \E is_approved \in Answers :
         /\ calls' = Append(calls, Call("input", i, Get(text), Some(is_approved)))
         /\ IF Lower(is_approved) # "y"
            THEN Continue
            ELSE /\ pc' = "create"
                 /\ UNCHANGED <<i, exc>>
    /\ UNCHANGED <<events, env, settings, approve, today_texts, text, event, tts_buffer,
                   images_buffers, uuid_count, fs, last>>

\* event = Event(id=uuid.uuid4(), date=settings.today) ; save_event_text
CreateEvent ==
    /\ pc = "create"
    /\ LET id == uuid_count + 1
           saved == save_event_text(fs, StrOfDate(settings.today), id, Get(text))
       IN  /\ uuid_count' = id
           /\ fs' = saved.fs
           /\ event' = Some([NewEvent(id, settings.today) EXCEPT
                                !.text_file_path = Some(saved.ret),
                                !.text = text])
    /\ pc' = "title"
    /\ tts_buffer' = None
    /\ images_buffers' = <<>>
    /\ UNCHANGED <<events, env, settings, approve, exc, i, today_texts, text, calls, last>>

\* GetTitle that asks once more after a failed request
GetTitleRetries ==
    /\ pc = "title"
    /\ \/ /\ calls' = Append(calls, Call("title", i, Get(text), Some(Title)))
          /\ event' = Some([Get(event) EXCEPT !.title = Some(Title)])
          /\ pc' = "description"
          /\ exc' = exc
       \/ /\ calls' = Append(calls, Call("title", i, Get(text), None))
          /\ IF calls # <<>> /\ calls[Len(calls)].svc = "title"
             THEN Raise("APIError")
             ELSE UNCHANGED <<pc, exc>>
          /\ event' = event
    /\ UNCHANGED <<events, env, settings, approve, i, today_texts, text, tts_buffer,
                   images_buffers, uuid_count, fs, last>>

\* event.title = title_service.get_title(ai_service, text)
GetTitle ==
    /\ pc = "title"
    /\ \/ /\ calls' = Append(calls, Call("title", i, Get(text), Some(Title)))
          /\ event' = Some([Get(event) EXCEPT !.title = Some(Title)])
          /\ pc' = "description"
          /\ exc' = exc
       \/ /\ calls' = Append(calls, Call("title", i, Get(text), None))
          /\ Raise("APIError")
          /\ event' = event
    /\ UNCHANGED <<events, env, settings, approve, i, today_texts, text, tts_buffer,
                   images_buffers, uuid_count, fs, last>>

\* event.description = description_service.get_description(
\*     ai_service, text, exclude_words=event.title.split(" "))
GetDescription ==
    /\ pc = "description"
    /\ \/ /\ calls' = Append(calls, Call("description", i, Get(text),
                                         Some(Description)))
          /\ event' = Some([Get(event) EXCEPT !.description = Some(Description)])
          /\ pc' = "tags"
          /\ exc' = exc
       \/ /\ calls' = Append(calls, Call("description", i, Get(text), None))
          /\ Raise("APIError")
          /\ event' = event
    /\ UNCHANGED <<events, env, settings, approve, i, today_texts, text, tts_buffer,
                   images_buffers, uuid_count, fs, last>>

\* event.tags = tags_service.get_tags(ai_service, text, exclude_tags=[])
GetTags ==
    /\ pc = "tags"
    /\ \/ /\ calls' = Append(calls, Call("tags", i, Get(text), Some(TagsReply)))
          /\ event' = Some([Get(event) EXCEPT !.tags = Some(get_tags(TagsReply))])
          /\ pc' = "tts"
          /\ exc' = exc
       \/ /\ calls' = Append(calls, Call("tags", i, Get(text), None))
          /\ Raise("APIError")
          /\ event' = event
    /\ UNCHANGED <<events, env, settings, approve, i, today_texts, text, tts_buffer,
                   images_buffers, uuid_count, fs, last>>

\* GetTTS without saving the speech audio before the transcription step
GetTTSNoSave ==
    /\ pc = "tts"
    /\ \/ \E buffer \in {Some(Buffer(b, "mp3")) : b \in SpeechReplies} :
            /\ calls' = Append(calls, Call("tts", i, Get(Get(event).text),
                                           Some(buffer)))
            /\ tts_buffer' = buffer
            /\ pc' = "transcription"
            /\ UNCHANGED <<event, fs, exc>>
       \/ /\ calls' = Append(calls, Call("tts", i, Get(Get(event).text), None))
          /\ Raise("APIError")
          /\ UNCHANGED <<event, tts_buffer, fs>>
    /\ UNCHANGED <<events, env, settings, approve, i, today_texts, text, images_buffers,
                   uuid_count, last>>

\* tts_buffer = tts_service.get_tts(...) ; event.tts_file_path = save_event_tts
\* OpenAIService.get_tts returns None when the status is not 200
GetTTS ==
    /\ pc = "tts"
    /\ \/ \E buffer \in {None} \cup {Some(Buffer(b, "mp3")) : b \in SpeechReplies} :
            LET saved == save_event_tts(fs, StrOfDate(settings.today),
                                        Get(event).id, buffer)
            IN  /\ calls' = Append(calls, Call("tts", i, Get(Get(event).text),
                                               Some(buffer)))
                /\ tts_buffer' = buffer
                /\ fs' = saved.fs
                /\ IF saved.exc # "none"
                   THEN /\ Raise(saved.exc)
                        /\ event' = event
                   ELSE /\ event' = Some([Get(event) EXCEPT
                                             !.tts_file_path = Some(saved.ret)])
                        /\ pc' = "transcription"
                        /\ exc' = exc
       \/ /\ calls' = Append(calls, Call("tts", i, Get(Get(event).text), None))
          /\ Raise("APIError")
          /\ UNCHANGED <<event, tts_buffer, fs>>
    /\ UNCHANGED <<events, env, settings, approve, i, today_texts, text, images_buffers,
                   uuid_count, last>>

\* transcription = transcription_service.get_transcription(ai_service,
\*     tts_buffer) ; event.transcription ; save_event_transcription
GetTranscription ==
    /\ pc = "transcription"
    /\ IF IsNone(tts_buffer)
       THEN /\ Raise("ValueError")
            /\ UNCHANGED <<calls, event, fs>>
       ELSE \/ \E n \in 0..MaxSegments :
                 LET transcription == Transcript(n)
                     saved == save_event_transcription(
                                  fs, StrOfDate(settings.today),
                                  Get(event).id, transcription)
                 IN  /\ calls' = Append(calls, Call("transcription", i,
                                    Get(tts_buffer), Some(transcription)))
                     /\ event' = Some([Get(event) EXCEPT
                             !.transcription = Some(transcription),
                             !.tts_duration = Some(transcription.duration),
                             !.transcription_file_path = Some(saved.ret)])
                     /\ fs' = saved.fs
                     /\ pc' = "images"
                     /\ exc' = exc
            \/ /\ calls' = Append(calls, Call("transcription", i,
                                              Get(tts_buffer), None))
               /\ Raise("APIError")
               /\ UNCHANGED <<event, fs>>
    /\ UNCHANGED <<events, env, settings, approve, i, today_texts, text, tts_buffer,
                   images_buffers, uuid_count, last>>

\* one iteration of the loop of multiple_from_transcription:
\*   image_buffer = self.get_image(...) ; image_buffer.name = f"{i}_{name}"
\* OpenAIService.get_image raises when the provider call fails, and returns
\* an unnamed empty buffer when the image cannot be fetched: reading its name
\* then raises AttributeError
GetImage ==
    /\ pc = "images"
    /\ Len(images_buffers) < images_num(Get(Get(event).transcription))
    /\ \/ LET image_buffer == Buffer(ImageBytes, ImageName(0))
          IN  /\ calls' = Append(calls, Call("image", i, Get(text),
                                             Some(image_buffer)))
              /\ images_buffers' = Append(images_buffers,
                     Buffer(image_buffer.bytes,
                            IndexedName(Len(images_buffers),
                                        image_buffer.name)))
              /\ UNCHANGED <<pc, exc>>
       \/ /\ calls' = Append(calls, Call("image", i, Get(text), None))
          /\ Raise("APIError")
          /\ UNCHANGED images_buffers
       \/ /\ calls' = Append(calls, Call("image", i, Get(text),
                                         Some(Buffer(<<>>, None))))
          /\ Raise("AttributeError")
          /\ UNCHANGED images_buffers
    /\ UNCHANGED <<events, env, settings, approve, i, today_texts, text, event, tts_buffer,
                   uuid_count, fs, last>>

\* images_paths = save_event_images(...) ; event.images_paths = images_paths
\* local_file_storage.dump_event(event)
FinishEvent ==
    /\ pc = "images"
    /\ Len(images_buffers) = images_num(Get(Get(event).transcription))
    /\ LET saved == save_event_images(fs, StrOfDate(settings.today),
                                      Get(event).id, images_buffers)
           done == [Get(event) EXCEPT !.images_paths = Some(saved.ret)]
           dumped == dump_event(saved.fs, done)
       IN  /\ event' = Some(done)
           /\ fs' = dumped.fs
           /\ IF dumped.exc # "none"
              THEN /\ Raise(dumped.exc)
                   /\ i' = i
              ELSE Continue
    /\ UNCHANGED <<events, env, settings, approve, today_texts, text, tts_buffer,
                   images_buffers, calls, uuid_count, last>>

Next ==
    \/ RequestText
    \/ Approve
    \/ CreateEvent
    \/ GetTitle
    \/ GetDescription
    \/ GetTags
    \/ GetTTS
    \/ GetTranscription
    \/ GetImage
    \/ FinishEvent

Spec == Init /\ [][Next]_vars

\* -------------------------------------------- the event store, call by call
\* A LocalEventsFileStorage over the events directory as earlier runs left it,
\* driven by a bounded number of calls with arguments drawn from small sets.

\* the artifacts generate_events saves for one event, before its record
Artifacts(fs0, date, id) ==
    LET d == StrOfDate(date)
        f1 == save_event_text(fs0, d, id, "t1").fs
        f2 == save_event_tts(f1, d, id, Some(Buffer(<<8>>, "mp3"))).fs
        f3 == save_event_transcription(f2, d, id, Transcript(1)).fs
    IN  save_event_images(f3, d, id,
            <<Buffer(ImageBytes, IndexedName(0, ImageName(0)))>>)

\* the record generate_events dumps for that event
Generated(fs0, date, id) ==
    LET d == StrOfDate(date) IN
    [NewEvent(id, date) EXCEPT
        !.text = Some("t1"), !.title = Some(Title),
        !.description = Some(Description),
        !.tags = Some(get_tags(TagsReply)),
        !.text_file_path = Some(get_event_text_path(d, id)),
        !.tts_file_path = Some(get_event_tts_path(d, id)),
        !.tts_duration = Some(1),
        !.transcription = Some(Transcript(1)),
        !.transcription_file_path = Some(get_event_transcription_path(d, id)),
        !.images_paths = Some(Artifacts(fs0, date, id).ret)]

\* the stores earlier runs leave behind: nothing; one generated event; two
\* generated events and one whose record was being written when the process
\* was killed
PriorStores ==
    LET gen(f, id) == dump_event(Artifacts(f, Today, id).fs,
                                 Generated(f, Today, id)).fs
        one == gen(EmptyFS, 1)
        three == Truncate(Artifacts(gen(one, 3), Today, 2).fs,
                          get_event_path(StrOfDate(Today), 2) \o <<"event.json">>)
    IN  {EmptyFS, one, three}

InitStore ==
    /\ settings = [num_events |-> 1,
                   max_num_images_per_video |-> DefaultMaxNumImages,
                   today |-> Today]
    /\ approve = FALSE
    /\ pc = "store"
    /\ exc = "none"
    /\ i = 0
    /\ today_texts = <<>>
    /\ text = None
    /\ event = None
    /\ tts_buffer = None
    /\ images_buffers = <<>>
    /\ calls = <<>>
    /\ uuid_count = 0
    /\ fs \in PriorStores
    /\ last = NoCall
    /\ events = {}
    /\ env = NoEnv

\* image lists: the k-th buffer holds the bytes <<k>> under any of the names
ImageLists ==
    UNION {[1..n -> ImageNames] : n \in 0..MaxImages}
ImagesOf(names) == [k \in 1..Len(names) |-> Buffer(<<k>>, names[k])]

\* sample records of one event: fresh, and fully generated in two variants
\* that differ in the text and in the order of tags and image paths
SampleEvents(date, id) ==
    LET d == StrOfDate(date)
        full(t, tags, names) ==
            [NewEvent(id, date) EXCEPT
                !.text = Some(t), !.title = Some(Title),
                !.description = Some(Description), !.tags = Some(tags),
                !.text_file_path = Some(get_event_text_path(d, id)),
                !.tts_file_path = Some(get_event_tts_path(d, id)),
                !.tts_duration = Some(MaxSegments),
                !.transcription = Some(Transcript(MaxSegments)),
                !.transcription_file_path =
                    Some(get_event_transcription_path(d, id)),
                !.images_paths = Some([k \in 1..Len(names) |->
                    get_event_images_path(d, id, names[k])])]
        n0 == IndexedName(0, ImageName(0))
        n1 == IndexedName(1, ImageName(0))
    IN  {NewEvent(id, date),
         full("t1", <<"Apollo", "Moon">>, <<n0, n1>>),
         full("t2", <<"Moon", "Apollo">>, <<n1, n0>>)}

StoreStep(op, args, res) ==
    /\ pc = "store"
    /\ last.n < MaxStoreCalls
    /\ fs' = res.fs
    /\ last' = StoreCall(last.n + 1, op, args, res, res.fs = fs)
    /\ UNCHANGED <<events, env, settings, approve, pc, exc, i, today_texts, text, event,
                   tts_buffer, images_buffers, calls, uuid_count>>

StoreSaveText ==
    \E date \in Dates, id \in UUIDs, t \in Texts :
        StoreStep("save_event_text", <<date, id, t>>,
                  save_event_text(fs, StrOfDate(date), id, t))

StoreSaveTTS ==
    \E date \in Dates, id \in UUIDs,
       tts \in {None} \cup {Some(Buffer(b, "mp3")) : b \in {<<>>, <<8>>}} :
        StoreStep("save_event_tts", <<date, id, tts>>,
                  save_event_tts(fs, StrOfDate(date), id, tts))

StoreSaveTranscription ==
    \E date \in Dates, id \in UUIDs, n \in 1..MaxSegments :
        StoreStep("save_event_transcription", <<date, id, Transcript(n)>>,
                  save_event_transcription(fs, StrOfDate(date), id,
                                           Transcript(n)))

StoreSaveImages ==
    \E date \in Dates, id \in UUIDs, names \in ImageLists :
        StoreStep("save_event_images", <<date, id, ImagesOf(names)>>,
                  save_event_images(fs, StrOfDate(date), id, ImagesOf(names)))

StoreDumpEvent ==
    \E date \in Dates, id \in UUIDs :
        \E e \in SampleEvents(date, id) :
            StoreStep("dump_event", <<e>>, dump_event(fs, e))

\* dump_event cut short after open(..., "w"): the record is left truncated
StoreDumpEventInterrupted ==
    \E date \in Dates, id \in UUIDs :
        LET filename == get_event_path(StrOfDate(date), id) \o <<"event.json">>
        IN  /\ CanOpen(fs, filename)
            /\ StoreStep("dump_event_interrupted", <<date, id>>,
                         Result(Truncate(fs, filename), None, "killed"))

StoreLoadEvents ==
    \E date \in Dates :
        StoreStep("load_events", <<date>>, load_events(fs, StrOfDate(date)))

\* the artifacts a path is computed for
PathKinds ==
    {<<"event">>, <<"text">>, <<"tts">>, <<"transcription">>, <<"video">>}
    \cup {<<"images", name>> : name \in ImageNames}

\* get_event_path and the get_event_*_path methods
get_path(date_str, event_id, kind) ==
    IF kind[1] = "event" THEN get_event_path(date_str, event_id)
    ELSE IF kind[1] = "text" THEN get_event_text_path(date_str, event_id)
    ELSE IF kind[1] = "tts" THEN get_event_tts_path(date_str, event_id)
    ELSE IF kind[1] = "transcription"
    THEN get_event_transcription_path(date_str, event_id)
    ELSE IF kind[1] = "video" THEN get_event_video_path(date_str, event_id)
    ELSE get_event_images_path(date_str, event_id, kind[2])

StoreGetPath ==
    \E date \in Dates, id \in UUIDs, kind \in PathKinds :
        StoreStep("get_path", <<date, id, kind>>,
                  Result(fs, get_path(StrOfDate(date), id, kind), "none"))

NextStore ==
    \/ StoreSaveText
    \/ StoreSaveTTS
    \/ StoreSaveTranscription
    \/ StoreSaveImages
    \/ StoreDumpEvent
    \/ StoreDumpEventInterrupted
    \/ StoreLoadEvents

SpecStore == InitStore /\ [][NextStore]_vars

\* the store asked for its paths between the saves that return paths
NextPaths ==
    \/ StoreGetPath
    \/ StoreSaveText
    \/ StoreSaveTTS
    \/ StoreSaveTranscription
    \/ StoreSaveImages

SpecPaths == InitStore /\ [][NextPaths]_vars

\* ----------------------------------- the services and the slide generator
\* called one by one with arguments drawn from small sets

\* Slide(duration=..., text=..., background_image=...)
Slide(duration, text_, background_image) ==
    [duration |-> duration, text |-> text_,
     background_image |-> background_image]

\* a service call returns [ret, exc, requests]: the returned value, the
\* exception raised and the provider requests it issued
ServiceResult(ret, exc_, requests) ==
    [ret |-> ret, exc |-> exc_, requests |-> requests]

\* generate_slides with background_image = images_paths[0] for every slide
generate_slides_first_image(e) ==
    IF IsNone(e.transcription)
    THEN ServiceResult(None, "ValueError", <<>>)
    ELSE IF IsNone(e.images_paths) \/ Get(e.images_paths) = <<>>
    THEN ServiceResult(None, "ValueError", <<>>)
    ELSE LET segments == Get(e.transcription).segments
             images_paths == Get(e.images_paths)
         IN  ServiceResult(
                 [idx \in 1..Len(segments) |->
                     Slide(segments[idx].end - segments[idx].start,
                           segments[idx].text, images_paths[1])],
                 "none", <<>>)

\* SlideGenerator.generate_slides; idx counts from 0 in the source and from 1
\* here, so images_paths[idx % len] is images_paths[((idx - 1) % len) + 1]
generate_slides(e) ==
    IF IsNone(e.transcription)
    THEN ServiceResult(None, "ValueError", <<>>)
    ELSE IF IsNone(e.images_paths) \/ Get(e.images_paths) = <<>>
    THEN ServiceResult(None, "ValueError", <<>>)
    ELSE LET segments == Get(e.transcription).segments
             images_paths == Get(e.images_paths)
         IN  ServiceResult(
                 [idx \in 1..Len(segments) |->
                     Slide(segments[idx].end - segments[idx].start,
                           segments[idx].text,
                           images_paths[((idx - 1) % Len(images_paths)) + 1])],
                 "none", <<>>)

\* the outcomes of one provider request: a reply, or None when it raises
TranscriptionReplies == {None} \cup {Some(Transcript(n)) : n \in 0..MaxSegments}

\* get_transcription without the check of the buffer
get_transcription_unchecked(buffer, reply) ==
    IF IsNone(reply)
    THEN ServiceResult(None, "APIError", <<buffer>>)
    ELSE ServiceResult(reply, "none", <<buffer>>)

\* TranscriptionRequestService.get_transcription
get_transcription(buffer, reply) ==
    IF IsNone(buffer)
    THEN ServiceResult(None, "ValueError", <<>>)
    ELSE IF IsNone(reply)
    THEN ServiceResult(None, "APIError", <<buffer>>)
    ELSE ServiceResult(reply, "none", <<buffer>>)

\* OpenAIService.get_image for the three outcomes of the provider: the
\* request raises; the image is fetched; the fetch fails inside the try block
\* and the empty unnamed buffer is returned
ImageReplies == {"ok", "raise", "unnamed"}
get_image(reply) ==
    IF reply = "raise" THEN ServiceResult(None, "APIError", <<>>)
    ELSE IF reply = "ok"
    THEN ServiceResult(Some(Buffer(ImageBytes, ImageName(0))), "none", <<>>)
    ELSE ServiceResult(Some(Buffer(<<>>, None)), "none", <<>>)

\* the loop of multiple_from_transcription over the provider's replies
RECURSIVE multiple_from_transcription_loop(_, _, _, _)
multiple_from_transcription_loop(num, replies, images, requests) ==
    IF Len(images) = num
    THEN ServiceResult(Some(images), "none", requests)
    ELSE LET got == get_image(replies[Len(images) + 1])
             issued == Append(requests, Len(images))
         IN  IF got.exc # "none"
             THEN ServiceResult(None, got.exc, issued)
             ELSE IF IsNone(Get(got.ret).name)
             THEN ServiceResult(None, "AttributeError", issued)
             ELSE multiple_from_transcription_loop(
                      num, replies,
                      Append(images,
                             Buffer(Get(got.ret).bytes,
                                    IndexedName(Len(images),
                                                Get(got.ret).name))),
                      issued)

\* ImageRequestService.multiple_from_transcription
multiple_from_transcription(transcription, replies) ==
    IF IsNone(transcription)
    THEN ServiceResult(None, "ValueError", <<>>)
    ELSE multiple_from_transcription_loop(images_num(Get(transcription)),
                                          replies, <<>>, <<>>)

ServiceCall(n, op, args, res) ==
    [n |-> n, op |-> op, args |-> args, ret |-> res.ret, exc |-> res.exc,
     requests |-> res.requests]

InitServices ==
    /\ settings \in [num_events : {1},
                     max_num_images_per_video : ImageCaps,
                     today : {Today}]
    /\ approve = FALSE
    /\ pc = "services"
    /\ exc = "none"
    /\ i = 0
    /\ today_texts = <<>>
    /\ text = None
    /\ event = None
    /\ tts_buffer = None
    /\ images_buffers = <<>>
    /\ calls = <<>>
    /\ uuid_count = 0
    /\ fs = EmptyFS
    /\ last = ServiceCall(0, "none", <<>>, ServiceResult(None, "none", <<>>))
    /\ events = {}
    /\ env = NoEnv

ServiceStep(op, args, res) ==
    /\ pc = "services"
    /\ last.n < MaxServiceCalls
    /\ last' = ServiceCall(last.n + 1, op, args, res)
    /\ UNCHANGED <<events, env, settings, approve, pc, exc, i, today_texts,
                   text, event, tts_buffer, images_buffers, calls, uuid_count,
                   fs>>

\* the events a slide generation is asked for: with or without a
\* transcription, with no, an empty or a non-empty list of image paths
SlideEvents ==
    {[NewEvent(1, Today) EXCEPT !.transcription = t, !.images_paths = p] :
        t \in {None} \cup {Some(Transcript(n)) : n \in 0..MaxSegments},
        p \in {None} \cup
              {Some([k \in 1..Len(names) |->
                        get_event_images_path(StrOfDate(Today), 1, names[k])]) :
                  names \in ImageLists}}

SvcGenerateSlides ==
    \E e \in SlideEvents :
        ServiceStep("generate_slides", <<e>>, generate_slides(e))

SvcGetTranscription ==
    \E buffer \in {None} \cup {Some(Buffer(b, "mp3")) : b \in {<<>>, <<8>>}},
       reply \in TranscriptionReplies :
        ServiceStep("get_transcription", <<buffer, reply>>,
                    get_transcription(buffer, reply))

SvcMultipleFromTranscription ==
    \E transcription \in {None} \cup
                         {Some(Transcript(n)) : n \in 0..MaxSegments} :
        \E replies \in [1..(IF IsNone(transcription) THEN 0
                            ELSE images_num(Get(transcription)))
                        -> ImageReplies] :
            ServiceStep("multiple_from_transcription",
                        <<transcription, replies>>,
                        multiple_from_transcription(transcription, replies))

NextServices ==
    \/ SvcGenerateSlides
    \/ SvcGetTranscription
    \/ SvcMultipleFromTranscription

SpecServices == InitServices /\ [][NextServices]_vars

\* ------------------------------------------------------------ generate_videos
\* The command run up to MaxRuns times for the same date over the events
\* directory as generate_events left it.

\* the store after generate_events stored one more event, and after it
\* stored one whose transcript has no segments and which has no images
WithEvent(f, id) ==
    dump_event(Artifacts(f, Today, id).fs, Generated(f, Today, id)).fs
WithImagelessEvent(f, id) ==
    LET d == StrOfDate(Today)
        f1 == save_event_text(f, d, id, "t1").fs
        f2 == save_event_tts(f1, d, id, Some(Buffer(<<8>>, "mp3"))).fs
        f3 == save_event_transcription(f2, d, id, Transcript(0)).fs
    IN  dump_event(f3, [Generated(f, Today, id) EXCEPT
                           !.tts_duration = Some(0),
                           !.transcription = Some(Transcript(0)),
                           !.images_paths = Some(<<>>)]).fs

RenderStores ==
    PriorStores
    \cup {WithEvent(WithEvent(EmptyFS, 1), 2),
          WithImagelessEvent(WithEvent(EmptyFS, 1), 2)}

InitRender ==
    /\ settings = [num_events |-> 1,
                   max_num_images_per_video |-> DefaultMaxNumImages,
                   today |-> Today]
    /\ approve = FALSE
    /\ pc = "load"
    /\ exc = "none"
    /\ i = 1
    /\ today_texts = <<>>
    /\ text = None
    /\ event = None
    /\ tts_buffer = None
    /\ images_buffers = <<>>
    /\ calls = <<>>
    /\ uuid_count = 0
    /\ fs \in RenderStores
    /\ last = NoCall
    /\ events = {}
    /\ env = NoEnv

\* events = local_file_storage.load_events(date)
RenderLoadEvents ==
    /\ pc = "load"
    /\ LET loaded == load_events(fs, StrOfDate(settings.today))
       IN  IF loaded.exc # "none"
           THEN /\ Raise(loaded.exc)
                /\ events' = events
           ELSE /\ events' = loaded.ret
                /\ pc' = "loop"
                /\ exc' = exc
    /\ UNCHANGED <<env, settings, approve, i, today_texts, text, event,
                   tts_buffer, images_buffers, calls, uuid_count, fs, last>>

\* for event in events: the events come in the order of the directory listing
RenderNextEvent ==
    /\ pc = "loop"
    /\ IF events = {}
       THEN /\ pc' = "done"
            /\ UNCHANGED <<events, event>>
       ELSE \E e \in events :
                /\ event' = Some(e)
                /\ events' = events \ {e}
                /\ pc' = "slides"
    /\ UNCHANGED <<env, settings, approve, exc, i, today_texts, text,
                   tts_buffer, images_buffers, calls, uuid_count, fs, last>>

\* slides = slide_generator.generate_slides(event) ; the clips ;
\* event.video_file_path = local_file_storage.get_event_video_path(...)
RenderGenerateSlides ==
    /\ pc = "slides"
    /\ LET slides == generate_slides(Get(event))
       IN  IF slides.exc # "none"
           THEN /\ Raise(slides.exc)
                /\ event' = event
           ELSE /\ event' = Some([Get(event) EXCEPT !.video_file_path =
                        Some(get_event_video_path(StrOfDate(settings.today),
                                                  Get(event).id))])
                /\ pc' = "render"
                /\ exc' = exc
    /\ UNCHANGED <<events, env, settings, approve, i, today_texts, text,
                   tts_buffer, images_buffers, calls, uuid_count, fs, last>>

\* RenderVideo that stores the event also when write_videofile fails
RenderVideoDumpsOnFailure ==
    /\ pc = "render"
    /\ LET path == Get(Get(event).video_file_path)
           slides == generate_slides(Get(event)).ret
       IN  \/ /\ fs' = dump_event(WriteFile(fs, path, <<"video", slides>>),
                                  Get(event)).fs
              /\ calls' = Append(calls, Call("render", i, Get(event).id,
                                             Some(path)))
              /\ pc' = "loop"
              /\ exc' = exc
           \/ /\ fs' \in {dump_event(fs, Get(event)).fs,
                          dump_event(Truncate(fs, path), Get(event)).fs}
              /\ calls' = Append(calls, Call("render", i, Get(event).id, None))
              /\ Raise("OSError")
    /\ UNCHANGED <<events, env, settings, approve, i, today_texts, text,
                   event, tts_buffer, images_buffers, uuid_count, last>>

\* final_clip.write_videofile(str(event.video_file_path), ...) ; the clips
\* closed ; local_file_storage.dump_event(event).  write_videofile writes the
\* whole video, or raises before it opens the file or after it opened it
RenderVideo ==
    /\ pc = "render"
    /\ LET path == Get(Get(event).video_file_path)
           slides == generate_slides(Get(event)).ret
       IN  \/ /\ fs' = dump_event(WriteFile(fs, path, <<"video", slides>>),
                                  Get(event)).fs
              /\ calls' = Append(calls, Call("render", i, Get(event).id,
                                             Some(path)))
              /\ pc' = "loop"
              /\ exc' = exc
           \/ /\ fs' \in {fs, Truncate(fs, path)}
              /\ calls' = Append(calls, Call("render", i, Get(event).id, None))
              /\ Raise("OSError")
    /\ UNCHANGED <<events, env, settings, approve, i, today_texts, text,
                   event, tts_buffer, images_buffers, uuid_count, last>>

\* the command is run again for the same date
RenderAgain ==
    /\ pc \in {"done", "raised"}
    /\ i < MaxRuns
    /\ i' = i + 1
    /\ pc' = "load"
    /\ exc' = "none"
    /\ event' = None
    /\ events' = {}
    /\ UNCHANGED <<env, settings, approve, today_texts, text, tts_buffer,
                   images_buffers, calls, uuid_count, fs, last>>

NextRender ==
    \/ RenderLoadEvents
    \/ RenderNextEvent
    \/ RenderGenerateSlides
    \/ RenderVideo
    \/ RenderAgain

SpecRender == InitRender /\ [][NextRender]_vars

\* --------------------------------------- generate_events run a second time
\* The command started again for a date for which an earlier run of one
\* event has left its directory: uuid4 never returns an identifier again.
FirstRunStore == WithEvent(EmptyFS, 1)

InitRerun ==
    /\ settings \in [num_events : {1},
                     max_num_images_per_video : ImageCaps,
                     today : {Today}]
    /\ approve \in BOOLEAN
    /\ pc = "text"
    /\ exc = "none"
    /\ i = 0
    /\ today_texts = <<>>
    /\ text = None
    /\ event = None
    /\ tts_buffer = None
    /\ images_buffers = <<>>
    /\ calls = <<>>
    /\ uuid_count = 1
    /\ fs = FirstRunStore
    /\ last = NoCall
    /\ events = {}
    /\ env = NoEnv

SpecRerun == InitRerun /\ [][Next]_vars

\* ------------------------------------------------------------------ Settings
\* Settings.__post_init__, statement by statement, over the environment the
\* process was started in.
SettingKeys ==
    <<"YOUTUBE_OAUTH2_CLIENT_ID", "YOUTUBE_OAUTH2_PROJECT_ID",
      "YOUTUBE_OAUTH2_AUTH_URI", "YOUTUBE_OAUTH2_TOKEN_URI",
      "YOUTUBE_OAUTH2_AUTH_PROVIDER_X509_CERT_URL",
      "YOUTUBE_OAUTH2_CLIENT_SECRET", "YOUTUBE_OAUTH2_REDIRECT_URIS">>

\* the environments: the credential is unset, empty or set; each other
\* variable is unset or set; the clock shows one of the dates
Environments ==
    {[vars |-> ("OPENAI_API_KEY" :> key) @@ youtube, clock |-> clock] :
        key \in {None, Some(""), Some("sk-1"), Some("sk-2")},
        youtube \in [{SettingKeys[k] : k \in 1..Len(SettingKeys)}
                     -> {None, Some("y")}],
        clock \in Dates}

\* EnvSettingsLoader.load: os.environ.get(key, default)
load(key, default) ==
    IF IsNone(env.vars[key]) THEN default ELSE env.vars[key]

\* datetime.date + datetime.timedelta(days=1), for a date before the last
\* day of its month
NextDay(d) == [d EXCEPT !.day = @ + 1]

\* the fields of Settings after the generated __init__ and before
\* __post_init__: those declared with field(init=False) are not set
UnsetSettings ==
    [api_key |-> None, events_path |-> None, today |-> None,
     today_str |-> None, num_events |-> DefaultNumEvents,
     max_num_images_per_video |-> DefaultMaxNumImages,
     youtube |-> None, youtube_oauth2_redirect_uris |-> None]

InitSettings ==
    /\ settings = UnsetSettings
    /\ approve = FALSE
    /\ pc = "api_key"
    /\ exc = "none"
    /\ i = 0
    /\ today_texts = <<>>
    /\ text = None
    /\ event = None
    /\ tts_buffer = None
    /\ images_buffers = <<>>
    /\ calls = <<>>
    /\ uuid_count = 0
    /\ fs \in {[dirs |-> {}, files |-> <<>>], EmptyFS}
    /\ last = NoCall
    /\ events = {}
    /\ env \in Environments

\* SettingsLoadApiKey that rejects an unset credential only
SettingsLoadApiKeyNoneOnly ==
    /\ pc = "api_key"
    /\ LET api_key == load("OPENAI_API_KEY", None)
       IN  /\ calls' = Append(calls, Call("load", 0, "OPENAI_API_KEY", api_key))
           /\ settings' = [settings EXCEPT !.api_key = api_key]
           /\ IF IsNone(api_key)
              THEN Raise("ValueError")
              ELSE /\ pc' = "events_path"
                   /\ exc' = exc
    /\ UNCHANGED <<events, env, approve, i, today_texts, text, event,
                   tts_buffer, images_buffers, uuid_count, fs, last>>

\* self.api_key = self.settings_loader.load("OPENAI_API_KEY", None)
\* if not self.api_key: raise ValueError("OpenAI API Key is required")
SettingsLoadApiKey ==
    /\ pc = "api_key"
    /\ LET api_key == load("OPENAI_API_KEY", None)
       IN  /\ calls' = Append(calls, Call("load", 0, "OPENAI_API_KEY", api_key))
           /\ settings' = [settings EXCEPT !.api_key = api_key]
           /\ IF IsNone(api_key) \/ Get(api_key) = ""
              THEN Raise("ValueError")
              ELSE /\ pc' = "events_path"
                   /\ exc' = exc
    /\ UNCHANGED <<events, env, approve, i, today_texts, text, event,
                   tts_buffer, images_buffers, uuid_count, fs, last>>

\* self.events_path = ... / "videos" ; os.makedirs(self.events_path,
\*                                                 exist_ok=True)
SettingsMakeEventsPath ==
    /\ pc = "events_path"
    /\ settings' = [settings EXCEPT !.events_path = Some(events_path)]
    /\ calls' = Append(calls, Call("makedirs", 0, events_path, None))
    /\ fs' = makedirs(fs, events_path)
    /\ pc' = "today"
    /\ UNCHANGED <<events, env, approve, exc, i, today_texts, text, event,
                   tts_buffer, images_buffers, uuid_count, last>>

\* self.today = datetime.date.today() + datetime.timedelta(days=1)
\* self.today_str = str(self.today)
SettingsToday ==
    /\ pc = "today"
    /\ settings' = [settings EXCEPT
                       !.today = Some(NextDay(env.clock)),
                       !.today_str = Some(StrOfDate(NextDay(env.clock)))]
    /\ pc' = "youtube"
    /\ UNCHANGED <<events, env, approve, exc, i, today_texts, text, event,
                   tts_buffer, images_buffers, calls, uuid_count, fs, last>>

\* the YouTube secrets, loaded one after another; the redirect URIs default
\* to "" and are split at the commas, of which the values here have none
SettingsLoadYouTube ==
    /\ pc = "youtube"
    /\ LET redirect == SettingKeys[Len(SettingKeys)]
           value(k) == IF SettingKeys[k] = redirect
                       THEN load(redirect, Some(""))
                       ELSE load(SettingKeys[k], None)
       IN  /\ calls' = calls \o [k \in 1..Len(SettingKeys) |->
                                    Call("load", 0, SettingKeys[k], value(k))]
           /\ settings' = [settings EXCEPT
                  !.youtube = Some([k \in 1..(Len(SettingKeys) - 1) |->
                                       value(k)]),
                  !.youtube_oauth2_redirect_uris =
                      Some(<<Get(value(Len(SettingKeys)))>>)]
    /\ pc' = "constructed"
    /\ UNCHANGED <<events, env, approve, exc, i, today_texts, text, event,
                   tts_buffer, images_buffers, uuid_count, fs, last>>

NextSettings ==
    \/ SettingsLoadApiKey
    \/ SettingsMakeEventsPath
    \/ SettingsToday
    \/ SettingsLoadYouTube

SpecSettings == InitSettings /\ [][NextSettings]_vars

\* ------------------------------------------------- Events created in a run
\* Events constructed one after another in one process, with an id passed to
\* the constructor or without, each followed by the save of its text.
InitEvents ==
    /\ settings = [num_events |-> 1,
                   max_num_images_per_video |-> DefaultMaxNumImages,
                   today |-> Today]
    /\ approve = FALSE
    /\ pc = "events"
    /\ exc = "none"
    /\ i = 0
    /\ today_texts = <<>>
    /\ text = None
    /\ event = None
    /\ tts_buffer = None
    /\ images_buffers = <<>>
    /\ calls = <<>>
    /\ uuid_count = DefaultEventId
    /\ fs = EmptyFS
    /\ last = NoCall
    /\ events = {}
    /\ env = NoEnv

\* the event constructed with the identifier id, and its text saved
EventCreated(passed, id, date, t) ==
    /\ pc = "events"
    /\ Len(calls) < MaxCreatedEvents
    /\ calls' = Append(calls, Call("Event", Len(calls), passed, Some(id)))
    /\ event' = Some([NewEvent(id, date) EXCEPT !.text = Some(t)])
    /\ fs' = save_event_text(fs, StrOfDate(date), id, t).fs
    /\ UNCHANGED <<events, env, settings, approve, pc, exc, i, today_texts,
                   text, tts_buffer, images_buffers, last>>

\* Event(id=uuid.uuid4(), date=...): uuid4 returns a new identifier
CreateEventWithId ==
    \E date \in Dates, t \in Texts :
        /\ uuid_count' = uuid_count + 1
        /\ EventCreated(Some(uuid_count + 1), uuid_count + 1, date, t)

\* Event(date=...): the id is the default of the field
CreateEventWithDefaultId ==
    \E date \in Dates, t \in Texts :
        /\ uuid_count' = uuid_count
        /\ EventCreated(None, DefaultEventId, date, t)

NextEvents ==
    \/ CreateEventWithId
    \/ CreateEventWithDefaultId

SpecEvents == InitEvents /\ [][NextEvents]_vars

\* ---------------------------------------------------- upload_videos_to_youtube
\* The command over the events directory as generate_events and
\* generate_videos left it.  The upload call itself is commented out in the
\* source: the command builds the video data of each event and prints it.

\* default_video_tags of Settings
default_video_tags == <<"history", "ai", "today">>

\* tag.lower().replace(" ", "") on the tags of the stored events and on the
\* default tags, which are lowercase words
lower_replace(tag) ==
    IF tag = "Apollo" THEN "apollo"
    ELSE IF tag = "Moon Landing" THEN "moonlanding"
    ELSE tag

\* the tags generate_events may have stored for an event: none, or a list
StoredTags == {None, Some(<<"Apollo", "Moon Landing">>),
               Some(<<"Moon Landing", "Apollo">>)}

\* the store after generate_videos rendered the event id, whose record holds
\* the tags; and after the video file was removed again
WithVideo(f, id, tags) ==
    LET path == get_event_video_path(StrOfDate(Today), id)
        stored == WithEvent(f, id)
    IN  dump_event(WriteFile(stored, path, <<"video", 1>>),
                   [Generated(f, Today, id) EXCEPT
                       !.tags = tags,
                       !.video_file_path = Some(path)]).fs
WithVideoRemoved(f, id) ==
    LET path == get_event_video_path(StrOfDate(Today), id)
        g == WithVideo(f, id, None)
    IN  [g EXCEPT !.files = [p \in DOMAIN g.files \ {path} |-> g.files[p]]]

\* what one event adds to a store: nothing; an event not rendered; a rendered
\* event whose video file is gone; a rendered event with its tags
StoresWith(f, id) ==
    {f, WithEvent(f, id), WithVideoRemoved(f, id)}
    \cup {WithVideo(f, id, tags) : tags \in StoredTags}

UploadStores ==
    UNION {StoresWith(f, 2) : f \in StoresWith(EmptyFS, 1)}

InitUpload ==
    /\ settings = [num_events |-> 1,
                   max_num_images_per_video |-> DefaultMaxNumImages,
                   today |-> Today]
    /\ approve = FALSE
    /\ pc = "authenticate"
    /\ exc = "none"
    /\ i = 0
    /\ today_texts = <<>>
    /\ text = None
    /\ event = None
    /\ tts_buffer = None
    /\ images_buffers = <<>>
    /\ calls = <<>>
    /\ uuid_count = 0
    /\ fs \in UploadStores
    /\ last = NoCall
    /\ events = {}
    /\ env = NoEnv

\* uploader = YouTubeVideoUploader(authenticator): the constructor
\* authenticates, which returns or raises; its token file lies outside the
\* events directory
UploadAuthenticate ==
    /\ pc = "authenticate"
    /\ \/ /\ pc' = "load"
          /\ exc' = exc
       \/ Raise("AuthError")
    /\ UNCHANGED <<events, env, settings, approve, i, today_texts, text,
                   event, tts_buffer, images_buffers, calls, uuid_count, fs,
                   last>>

\* events = local_file_storage.load_events(date)
UploadLoadEvents ==
    /\ pc = "load"
    /\ LET loaded == load_events(fs, StrOfDate(settings.today))
       IN  IF loaded.exc # "none"
           THEN /\ Raise(loaded.exc)
                /\ events' = events
           ELSE /\ events' = loaded.ret
                /\ pc' = "loop"
                /\ exc' = exc
    /\ UNCHANGED <<env, settings, approve, i, today_texts, text, event,
                   tts_buffer, images_buffers, calls, uuid_count, fs, last>>

\* YouTubeVideo(video_file_path=..., title=..., description=..., tags=tags)
YouTubeVideo(e, tags) ==
    [video_file_path |-> Get(e.video_file_path), title |-> e.title,
     description |-> e.description, tags |-> tags]

\* UploadEvent with the default tags put before the event's own
UploadEventDefaultsFirst ==
    /\ pc = "loop"
    /\ \E e \in events :
          /\ events' = events \ {e}
          /\ event' = Some(e)
          /\ IF IsNone(e.video_file_path)
                \/ Get(e.video_file_path) \notin DOMAIN fs.files
             THEN calls' = calls
             ELSE LET own == IF IsNone(e.tags) THEN <<>> ELSE Get(e.tags)
                      tags == default_video_tags \o own
                  IN  calls' = Append(calls,
                          Call("video_data", i, e.id,
                               Some(YouTubeVideo(e,
                                   [k \in 1..Len(tags) |->
                                       lower_replace(tags[k])]))))
    /\ UNCHANGED <<env, settings, approve, pc, exc, i, today_texts, text,
                   tts_buffer, images_buffers, uuid_count, fs, last>>

\* one iteration of the loop: the event is skipped without a video path or
\* without its video file; otherwise tags = event.tags or [] ;
\* tags.extend(settings.default_video_tags) ; each tag lowercased and its
\* spaces removed ; the video data built and printed
UploadEvent ==
    /\ pc = "loop"
    /\ \E e \in events :
          /\ events' = events \ {e}
          /\ event' = Some(e)
          /\ IF IsNone(e.video_file_path)
                \/ Get(e.video_file_path) \notin DOMAIN fs.files
             THEN calls' = calls
             ELSE LET own == IF IsNone(e.tags) THEN <<>> ELSE Get(e.tags)
                      tags == own \o default_video_tags
                  IN  calls' = Append(calls,
                          Call("video_data", i, e.id,
                               Some(YouTubeVideo(e,
                                   [k \in 1..Len(tags) |->
                                       lower_replace(tags[k])]))))
    /\ UNCHANGED <<env, settings, approve, pc, exc, i, today_texts, text,
                   tts_buffer, images_buffers, uuid_count, fs, last>>

\* the loop over the events is exhausted
UploadDone ==
    /\ pc = "loop"
    /\ events = {}
    /\ pc' = "done"
    /\ UNCHANGED <<events, env, settings, approve, exc, i, today_texts, text,
                   event, tts_buffer, images_buffers, calls, uuid_count, fs,
                   last>>

NextUpload ==
    \/ UploadAuthenticate
    \/ UploadLoadEvents
    \/ UploadEvent
    \/ UploadDone

SpecUpload == InitUpload /\ [][NextUpload]_vars

\* ===================================================================== claims
Ended == pc \in {"done", "raised"}

\* the directories <events_path>/<date_str>/<id> that exist
EventDirs(f, date_str) ==
    {d \in f.dirs : Len(d) = Len(events_path) + 2
                    /\ SubSeq(d, 1, Len(events_path)) = events_path
                    /\ d[Len(events_path) + 1] = date_str}

HasFile(f, path) == path \in DOMAIN f.files

\* the record stored for an event id of the run's date: None when there is
\* no event.json or it does not parse
StoredRecord(f, id) ==
    LET p == get_event_path(StrOfDate(settings.today), id) \o <<"event.json">>
    IN  IF HasFile(f, p) /\ IsValidJson(f.files[p])
        THEN Some(model_validate_json(f.files[p]))
        ELSE None

TextCalls == SelectSeq(calls, LAMBDA c : c.svc = "text")

StepOrder == <<"text", "input", "title", "description", "tags", "tts",
               "transcription", "image">>
Rank(svc) == CHOOSE k \in 1..Len(StepOrder) : StepOrder[k] = svc

\* b may directly follow a in the sequence of requests
MayFollow(a, b) ==
    /\ ~IsNone(a.ret)
    /\ \/ /\ b.slot = a.slot
          /\ \/ Rank(b.svc) = Rank(a.svc) + 1
             \/ a.svc = "text" /\ b.svc = "title" /\ ~approve
             \/ a.svc = "image" /\ b.svc = "image"
       \/ /\ b.slot = a.slot + 1
          /\ b.svc = "text"

\* C1: the steps of every event happen in the fixed order Text, (approval),
\* Title, Description, Tags, Speech, Transcription, Images, record; each
\* request follows the returned previous one, the slots are not interleaved,
\* tags are set only after the text, and the transcription only after the
\* speech audio has been saved.
C1_StepOrder ==
    /\ \A k \in 1..(Len(calls) - 1) : MayFollow(calls[k], calls[k + 1])
    /\ ~IsNone(event) =>
         LET e == Get(event) IN
         /\ ~IsNone(e.title) => ~IsNone(e.text)
         /\ ~IsNone(e.description) => ~IsNone(e.title)
         /\ ~IsNone(e.tags) => ~IsNone(e.text) /\ ~IsNone(e.description)
         /\ ~IsNone(e.tts_file_path) => ~IsNone(e.tags)
         /\ ~IsNone(e.transcription) =>
               /\ ~IsNone(e.tts_file_path)
               /\ HasFile(fs, get_event_tts_path(StrOfDate(e.date), e.id))
         /\ ~IsNone(e.images_paths) => ~IsNone(e.transcription)
         /\ ~IsNone(StoredRecord(fs, e.id)) => ~IsNone(e.images_paths)

C1_Witness ==
    /\ pc = "done"
    /\ i >= 2
    /\ ~IsNone(event)
    /\ ~IsNone(Get(event).transcription)
    /\ ~IsNone(Get(event).tags)
    /\ \E k \in 1..Len(calls) : calls[k].svc = "image" /\ calls[k].slot = 1

\* C2: after each generation step of an event succeeds, the full record is
\* persisted before the next step starts: whenever the run stands between
\* two steps of an event, the stored record holds every field set so far.
C2_PersistedAfterEachStep ==
    (~IsNone(event)
       /\ pc \in {"title", "description", "tags", "tts", "transcription",
                  "images"})
    => StoredRecord(fs, Get(event).id) = event

\* C3: when a generation step of an event fails, the batch goes on with the
\* next slot: at the end of the run every slot has had its text request.
C3_BatchContinues ==
    Ended => \A s \in 0..(settings.num_events - 1) :
                \E k \in 1..Len(calls) :
                    calls[k].svc = "text" /\ calls[k].slot = s

\* C4: after a run on an empty date, the event directories of the date are
\* those of the fully generated events (each holds a complete record), and
\* number at most num_events.
C4_DirectoriesAreGeneratedEvents ==
    Ended =>
      LET dirs == EventDirs(fs, StrOfDate(settings.today)) IN
      /\ Cardinality(dirs) <= settings.num_events
      /\ \A d \in dirs :
            /\ HasFile(fs, d \o <<"event.json">>)
            /\ IsValidJson(fs.files[d \o <<"event.json">>])
            /\ ~IsNone(model_validate_json(fs.files[d \o <<"event.json">>])
                          .images_paths)

\* C5: the k-th text request of a run is passed exactly the texts returned by
\* the text requests 1..k-1, in generation order; the list only grows by
\* appending.
C5_ExistingTextsInv ==
    /\ \A k \in 1..Len(TextCalls) :
          TextCalls[k].arg = [j \in 1..(k - 1) |-> Get(TextCalls[j].ret)]
C5_AppendOnly ==
    \/ today_texts' = today_texts
    \/ /\ Len(today_texts') = Len(today_texts) + 1
       /\ SubSeq(today_texts', 1, Len(today_texts)) = today_texts
C5_ExistingTexts == [](C5_ExistingTextsInv) /\ [][C5_AppendOnly]_vars

C5_Witness ==
    /\ Len(TextCalls) = 3
    /\ Len(TextCalls[3].arg) = 2
    /\ TextCalls[3].arg[1] # TextCalls[3].arg[2]

\* C6: a slot whose text the operator does not approve creates no Event,
\* draws no id, makes no further provider call and leaves the store as it was.
Rejected(c) == c.svc = "input" /\ Lower(Get(c.ret)) # "y"
C6_RejectedInv ==
    \A k \in 1..Len(calls) :
        Rejected(calls[k]) =>
            \A m \in 1..Len(calls) :
                calls[m].slot = calls[k].slot => calls[m].svc \in {"text", "input"}
C6_RejectStep ==
    (pc = "approve" /\ Len(calls') = Len(calls) + 1
        /\ Rejected(calls'[Len(calls')]))
    => /\ fs' = fs
       /\ uuid_count' = uuid_count
       /\ event' = event
       /\ i' = i + 1
       /\ pc' \in {"text", "done"}
C6_RejectionLeavesNoTrace == [](C6_RejectedInv) /\ [][C6_RejectStep]_vars

C6_Witness ==
    /\ pc = "done"
    /\ \E k \in 1..Len(calls) : Rejected(calls[k]) /\ calls[k].slot = 0
    /\ \E k \in 1..Len(calls) : calls[k].svc = "title" /\ calls[k].slot = 1
    /\ uuid_count = 1
    /\ Cardinality(EventDirs(fs, StrOfDate(settings.today))) = 1

\* the records of a date that parse
ValidEvents(f, date_str) ==
    {model_validate_json(f.files[p]) :
        p \in {q \in EventFiles(f, date_str) : IsValidJson(f.files[q])}}

\* C7: dump_event followed by load_events for the event's date returns a
\* record equal to the saved one in all fields.
C7_RoundTrip ==
    (last.op = "dump_event" /\ last.exc = "none") =>
        LET e == last.args[1]
            loaded == load_events(fs, StrOfDate(e.date))
        IN  /\ loaded.exc = "none"
            /\ e \in loaded.ret

\* C8: load_events skips every event.json that does not parse and returns
\* all the valid events of the date, without raising.
C8_LoadSkipsCorrupt ==
    last.op = "load_events" =>
        /\ last.exc = "none"
        /\ last.ret = ValidEvents(fs, StrOfDate(last.args[1]))

\* C9: save_event_tts given no audio, or a buffer holding zero bytes, fails
\* and leaves the store unchanged.
C9_EmptyAudioRejected ==
    (last.op = "save_event_tts"
        /\ (IsNone(last.args[3]) \/ Get(last.args[3]).bytes = <<>>))
    => /\ last.exc # "none"
       /\ last.unchanged

\* C10 as stated: save_event_images returns one path per input image in input
\* order, the i-th being images/<name of the i-th input>, and the file at
\* that path holds the i-th input's bytes.
C10_PathsAndOwnBytes ==
    last.op = "save_event_images" =>
        LET d == StrOfDate(last.args[1])
            id == last.args[2]
            images == last.args[3]
        IN  /\ last.exc = "none"
            /\ Len(last.ret) = Len(images)
            /\ \A k \in 1..Len(images) :
                  /\ last.ret[k] = get_event_images_path(d, id, images[k].name)
                  /\ fs.files[last.ret[k]] = <<"bytes", images[k].bytes>>

\* the last input image that has the name of the k-th
LastNamed(images, k) ==
    CHOOSE m \in k..Len(images) :
        /\ images[m].name = images[k].name
        /\ \A n \in (m + 1)..Len(images) : images[n].name # images[k].name

\* C10 (amended): save_event_images returns one path per input image in input
\* order, the i-th being images/<name of the i-th input>, and the file at
\* that path holds the bytes of the last input image of that name: the i-th
\* input's own bytes when the names are distinct.
C10_PathsAndLastBytes ==
    last.op = "save_event_images" =>
        LET d == StrOfDate(last.args[1])
            id == last.args[2]
            images == last.args[3]
        IN  /\ last.exc = "none"
            /\ Len(last.ret) = Len(images)
            /\ \A k \in 1..Len(images) :
                  /\ last.ret[k] = get_event_images_path(d, id, images[k].name)
                  /\ fs.files[last.ret[k]]
                        = <<"bytes", images[LastNamed(images, k)].bytes>>
                  /\ (\A n \in 1..Len(images) :
                         n # k => images[n].name # images[k].name)
                     => fs.files[last.ret[k]] = <<"bytes", images[k].bytes>>

C10_Witness ==
    /\ last.op = "save_event_images"
    /\ Len(last.args[3]) = 2
    /\ last.args[3][1].name # last.args[3][2].name
    /\ last.ret[1] # last.ret[2]
    /\ Len(last.ret[1]) = 5

\* C11: for a transcription of n segments and m >= 1 images, slide generation
\* returns n slides in segment order, slide i (from 0) with image i mod m as
\* background; without a transcription or without images it raises and
\* returns no slides.
C11_SlidesCycleImages ==
    last.op = "generate_slides" =>
        LET e == last.args[1] IN
        IF IsNone(e.transcription) \/ IsNone(e.images_paths)
           \/ Get(e.images_paths) = <<>>
        THEN last.exc # "none" /\ IsNone(last.ret)
        ELSE LET segments == Get(e.transcription).segments
                 images == Get(e.images_paths)
                 m == Len(images)
             IN  /\ last.exc = "none"
                 /\ Len(last.ret) = Len(segments)
                 /\ \A k \in 0..(Len(segments) - 1) :
                       /\ last.ret[k + 1].text = segments[k + 1].text
                       /\ last.ret[k + 1].duration
                             = segments[k + 1].end - segments[k + 1].start
                       /\ \E j \in 0..(m - 1) :
                             /\ j = k % m
                             /\ last.ret[k + 1].background_image = images[j + 1]

C11_Witness ==
    /\ last.op = "generate_slides"
    /\ last.exc = "none"
    /\ Len(last.ret) = 2
    /\ Len(Get(last.args[1].images_paths)) = 2
    /\ last.ret[1].background_image # last.ret[2].background_image

Min(a, b) == IF a < b THEN a ELSE b

ImageCallsOf(slot) ==
    SelectSeq(calls, LAMBDA c : c.svc = "image" /\ c.slot = slot)

TranscriptionsOf(slot) ==
    SelectSeq(calls, LAMBDA c : c.svc = "transcription" /\ c.slot = slot
                                /\ ~IsNone(c.ret))

\* C12: for a transcription of s segments and a cap of c images, the image
\* service issues exactly min(s, c) single-image requests one after another
\* and returns min(s, c) images, the k-th (from 0) named with index k; the
\* image paths stored for an event number min(s, c).
C12_ImageCountIsMin ==
    LET c == settings.max_num_images_per_video IN
    /\ \A slot \in 0..(i - 1) :
          TranscriptionsOf(slot) # <<>> =>
              LET s == Len(Get(TranscriptionsOf(slot)[1].ret).segments)
              IN  /\ Len(ImageCallsOf(slot)) = Min(s, c)
                  /\ \A k \in 1..Len(ImageCallsOf(slot)) :
                         ~IsNone(ImageCallsOf(slot)[k].ret)
    /\ pc = "images" =>
          /\ Len(ImageCallsOf(i)) = Len(images_buffers)
          /\ Len(images_buffers)
                <= Min(Len(Get(Get(event).transcription).segments), c)
          /\ \A k \in 1..Len(images_buffers) :
                images_buffers[k].name = IndexedName(k - 1, ImageName(0))
    /\ \A id \in UUIDs \cup 1..uuid_count :
          LET r == StoredRecord(fs, id) IN
          ~IsNone(r) =>
              LET paths == Get(Get(r).images_paths)
                  s == Len(Get(Get(r).transcription).segments)
              IN  /\ Len(paths) = Min(s, c)
                  /\ \A k \in 1..Len(paths) :
                         paths[k][Len(paths[k])]
                             = IndexedName(k - 1, ImageName(0))

\* a stored event whose number of images is the cap, below its segments
C12_Witness ==
    /\ pc = "done"
    /\ \E id \in 1..uuid_count :
          LET r == StoredRecord(fs, id) IN
          /\ ~IsNone(r)
          /\ Len(Get(Get(r).transcription).segments) = 2
          /\ Len(Get(Get(r).images_paths)) = 1
          /\ Len(ImageCallsOf(i - 1)) = 1

\* an image request that failed: the provider call raised, or the image
\* could not be fetched and the buffer came back empty and unnamed
FailedImageCall(c) ==
    /\ c.svc = "image"
    /\ \/ IsNone(c.ret)
       \/ IsNone(Get(c.ret).name)

\* C13: when an image request fails in the middle of the sequence of an
\* event, the image service returns the images generated so far instead of
\* raising, and generate_events goes on to persist the event with them.
C13_PartialImagesReturned ==
    (calls # <<>> /\ FailedImageCall(calls[Len(calls)])) =>
        /\ exc = "none"
        /\ pc = "images"

\* C14: when the speech provider reports non-success the speech service
\* returns None; generate_events then makes no transcription or image
\* request for that event and goes on to the next slot without raising.
C14_NoSpeechSkipsEvent ==
    \A k \in 1..Len(calls) :
        (calls[k].svc = "tts" /\ calls[k].ret = Some(None)) =>
            /\ \A j \in 1..Len(calls) :
                   calls[j].slot = calls[k].slot =>
                       calls[j].svc \notin {"transcription", "image"}
            /\ exc = "none"
            /\ pc # "raised"

\* C15: the transcription service called with no audio raises before any
\* provider request is made, and the image service called with no
\* transcription raises likewise without issuing any image request.
C15_MissingInputFailsFirst ==
    /\ (last.op = "get_transcription" /\ IsNone(last.args[1])) =>
           /\ last.exc = "ValueError"
           /\ IsNone(last.ret)
           /\ last.requests = <<>>
    /\ (last.op = "multiple_from_transcription" /\ IsNone(last.args[1])) =>
           /\ last.exc = "ValueError"
           /\ IsNone(last.ret)
           /\ last.requests = <<>>

\* the transcription service was called without audio while the provider
\* was ready to answer
C15_Witness ==
    /\ last.op = "get_transcription"
    /\ IsNone(last.args[1])
    /\ ~IsNone(last.args[2])
    /\ last.exc = "ValueError"

\* second is the result of calling the last save again for the same
\* (date, id) on the store it left, and alone the result of that second call
\* on an empty store: the second call returns what the last one returned,
\* adds or removes no file or directory, and leaves its own content in the
\* files it writes and every other file as it was
SecondCallOverwrites(second, alone) ==
    /\ second.exc = last.exc
    /\ second.ret = last.ret
    /\ DOMAIN second.fs.files = DOMAIN fs.files
    /\ second.fs.dirs = fs.dirs
    /\ \A p \in DOMAIN fs.files :
          second.fs.files[p] = IF p \in DOMAIN alone.fs.files
                               THEN alone.fs.files[p]
                               ELSE fs.files[p]

\* the buffers of another call for the names of images
ImagesOfSecondCall(images) ==
    [k \in 1..Len(images) |-> Buffer(<<k, k>>, images[k].name)]

TTSBuffers == {Some(Buffer(b, "mp3")) : b \in {<<>>, <<8>>}}

FilesIn(f, dir) ==
    {p \in DOMAIN f.files : Len(p) = Len(dir) + 1 /\ Parent(p) = dir}

\* the artifact paths a record refers to
ArtifactPaths(r) ==
    {Get(o) : o \in {r.text_file_path, r.tts_file_path,
                     r.transcription_file_path, r.video_file_path} \ {None}}
    \cup (IF IsNone(r.images_paths) THEN {}
          ELSE {Get(r.images_paths)[k] : k \in 1..Len(Get(r.images_paths))})

\* C17: after generate_events has completed its batch, every event directory
\* of the date that holds an event.json also holds text.txt, tts.mp3,
\* transcription.json and an images directory of at most
\* max_num_images_per_video images, and every artifact path stored in the
\* event.json is the path of a file that exists.
C17_CompleteEventDirectories ==
    pc = "done" =>
        \A dir \in EventDirs(fs, StrOfDate(settings.today)) :
            HasFile(fs, dir \o <<"event.json">>) =>
                /\ HasFile(fs, dir \o <<"text.txt">>)
                /\ HasFile(fs, dir \o <<"tts.mp3">>)
                /\ HasFile(fs, dir \o <<"transcription.json">>)
                /\ (dir \o <<"images">>) \in fs.dirs
                /\ Cardinality(FilesIn(fs, dir \o <<"images">>))
                      <= settings.max_num_images_per_video
                /\ IsValidJson(fs.files[dir \o <<"event.json">>])
                /\ \A p \in ArtifactPaths(model_validate_json(
                                fs.files[dir \o <<"event.json">>])) :
                      HasFile(fs, p)

\* the requests to render the event id, and those that completed
RendersOf(id) ==
    SelectSeq(calls, LAMBDA c : c.svc = "render" /\ c.arg = id)
CompletedRendersOf(id) ==
    SelectSeq(RendersOf(id), LAMBDA c : ~IsNone(c.ret))

\* C18: a stored event record has a video path only if a render of that
\* event completed, and an event whose renders all failed is stored without
\* a video path.
C18_VideoPathOnlyAfterRender ==
    \A id \in UUIDs \cup {3} :
        LET r == StoredRecord(fs, id) IN
        ~IsNone(r) =>
            /\ ~IsNone(Get(r).video_file_path) =>
                  /\ CompletedRendersOf(id) # <<>>
                  /\ Get(Get(r).video_file_path)
                        = CompletedRendersOf(id)[1].ret[1]
            /\ (RendersOf(id) # <<>> /\ CompletedRendersOf(id) = <<>>) =>
                  IsNone(Get(r).video_file_path)

\* the render of one event completed and its record holds the video path;
\* the render of another failed after the path was set on the event in
\* memory, and its record holds none
C18_Witness ==
    /\ pc = "raised"
    /\ exc = "OSError"
    /\ ~IsNone(Get(event).video_file_path)
    /\ CompletedRendersOf(Get(event).id) = <<>>
    /\ IsNone(Get(StoredRecord(fs, Get(event).id)).video_file_path)
    /\ \E id \in UUIDs :
          /\ CompletedRendersOf(id) # <<>>
          /\ ~IsNone(StoredRecord(fs, id))
          /\ ~IsNone(Get(StoredRecord(fs, id)).video_file_path)

\* C19: running a command again for the same date does not duplicate its
\* results: after generate_events has run a second time the date has as many
\* event directories as the first run left.
C19_RerunDoesNotDuplicate ==
    pc = "done" =>
        Cardinality(EventDirs(fs, StrOfDate(settings.today)))
            = Cardinality(EventDirs(FirstRunStore, StrOfDate(settings.today)))

CredentialMissing ==
    \/ IsNone(env.vars["OPENAI_API_KEY"])
    \/ Get(env.vars["OPENAI_API_KEY"]) = ""

\* C20: constructing Settings with the API credential unset or empty raises
\* before the events directory is created and before any other setting is
\* read; with the credential set, construction does not raise and api_key
\* is the loaded value.
C20_CredentialCheckedFirst ==
    /\ (CredentialMissing /\ pc # "api_key") =>
           /\ pc = "raised"
           /\ exc = "ValueError"
           /\ calls = <<Call("load", 0, "OPENAI_API_KEY",
                             env.vars["OPENAI_API_KEY"])>>
           /\ IsNone(settings.events_path)
           /\ IsNone(settings.today)
           /\ IsNone(settings.youtube)
    /\ ~CredentialMissing =>
           /\ pc # "raised"
           /\ pc # "api_key" => settings.api_key = env.vars["OPENAI_API_KEY"]

\* construction stopped at an empty credential where no events directory
\* existed, and none exists
C20_Witness ==
    /\ env.vars["OPENAI_API_KEY"] = Some("")
    /\ pc = "raised"
    /\ events_path \notin fs.dirs

\* <events_root>/<date>/<id>/<artifact>, relative to the project root
PathUnder(date, id, artifact) ==
    events_path \o <<StrOfDate(date), StrOfUUID(id)>> \o artifact

ArtifactOf(kind) ==
    IF kind[1] = "event" THEN <<>>
    ELSE IF kind[1] = "text" THEN <<"text.txt">>
    ELSE IF kind[1] = "tts" THEN <<"tts.mp3">>
    ELSE IF kind[1] = "transcription" THEN <<"transcription.json">>
    ELSE IF kind[1] = "video" THEN <<"video.mp4">>
    ELSE <<"images", kind[2]>>

\* C22: every path the store returns or stores in a record is relative to
\* the project root and has the form <events_root>/<date>/<id>/<artifact>, a
\* function of (date, id, artifact name) alone, and computing a path leaves
\* the store as it is.
C22_PathsAreRelativeAndDeterministic ==
    /\ last.op = "get_path" =>
          /\ last.ret = PathUnder(last.args[1], last.args[2],
                                  ArtifactOf(last.args[3]))
          /\ last.unchanged
          /\ last.exc = "none"
    /\ (last.op = "save_event_text" /\ last.exc = "none") =>
          last.ret = PathUnder(last.args[1], last.args[2], <<"text.txt">>)
    /\ (last.op = "save_event_tts" /\ last.exc = "none") =>
          last.ret = PathUnder(last.args[1], last.args[2], <<"tts.mp3">>)
    /\ (last.op = "save_event_transcription" /\ last.exc = "none") =>
          last.ret = PathUnder(last.args[1], last.args[2],
                               <<"transcription.json">>)
    /\ (last.op = "save_event_images" /\ last.exc = "none") =>
          \A k \in 1..Len(last.ret) :
              last.ret[k] = PathUnder(last.args[1], last.args[2],
                                      <<"images", last.args[3][k].name>>)
    /\ \A date \in Dates, id \in UUIDs \cup {3} :
          LET p == PathUnder(date, id, <<"event.json">>) IN
          (HasFile(fs, p) /\ IsValidJson(fs.files[p])) =>
              \A q \in ArtifactPaths(model_validate_json(fs.files[p])) :
                  /\ Len(q) > Len(PathUnder(date, id, <<>>))
                  /\ SubSeq(q, 1, Len(PathUnder(date, id, <<>>)))
                        = PathUnder(date, id, <<>>)
    /\ \A p \in DOMAIN fs.files : p[1] = events_path[1]

\* a path was computed for an event whose files an earlier save had written
C22_Witness ==
    /\ last.n = 2
    /\ last.op = "get_path"
    /\ last.args[3][1] = "images"
    /\ last.ret \in DOMAIN fs.files
    /\ last.ret[1] = "videos"

\* C23: the event directory is created by the first write, whichever save
\* operation that is: save_event_text, save_event_tts (of a buffer),
\* save_event_transcription, save_event_images (of one image or more) and
\* dump_event each return for a (date, id) and leave its directory in place.
C23_FirstWriteCreatesDirectory ==
    /\ (\/ last.op \in {"save_event_text", "save_event_transcription"}
        \/ last.op = "save_event_tts" /\ ~IsNone(last.args[3])
        \/ last.op = "save_event_images" /\ last.args[3] # <<>>) =>
           /\ last.exc = "none"
           /\ PathUnder(last.args[1], last.args[2], <<>>) \in fs.dirs
    /\ last.op = "dump_event" =>
           /\ last.exc = "none"
           /\ PathUnder(last.args[1].date, last.args[1].id, <<>>) \in fs.dirs

\* C21: the run date of the loaded settings is the current calendar date:
\* today is the date the clock shows, today_str its string form, and the
\* default num_events is 5.
C21_TodayIsCurrentDate ==
    pc = "constructed" =>
        /\ settings.today = Some(env.clock)
        /\ settings.today_str = Some(StrOfDate(env.clock))
        /\ settings.num_events = 5

\* the steps that issue one provider request per event
SingleRequestSteps ==
    {"text", "title", "description", "tags", "tts", "transcription"}

RequestsOf(svc, slot) ==
    SelectSeq(calls, LAMBDA c : c.svc = svc /\ c.slot = slot)

\* C24: generate_events never retries a provider request: when a request is
\* issued it is the only one of its step and slot, every earlier step of the
\* slot has issued exactly one, and a request that failed is the last
\* request of the run.
C24_NoRetry ==
    calls # <<>> =>
        LET c == calls[Len(calls)] IN
        /\ c.svc \in SingleRequestSteps => Len(RequestsOf(c.svc, c.slot)) = 1
        /\ \A svc \in SingleRequestSteps :
              (c.svc \in SingleRequestSteps \cup {"image"}
               /\ Rank(svc) < Rank(c.svc)) =>
                  Len(RequestsOf(svc, c.slot)) = 1
        /\ IsNone(c.ret) => pc = "raised"
        /\ Len(calls) > 1 => ~IsNone(calls[Len(calls) - 1].ret)

\* the run ended at a failed request of its second slot, after the first
\* slot had issued each of its requests
C24_Witness ==
    /\ pc = "raised"
    /\ calls # <<>>
    /\ IsNone(calls[Len(calls)].ret)
    /\ calls[Len(calls)].svc = "title"
    /\ calls[Len(calls)].slot = 1
    /\ Len(RequestsOf("transcription", 0)) = 1

\* C25: every Event created in a process has its own id, whether or not an
\* id is passed to the constructor: no two created events share an id, and
\* the text of every one of them is in the store.
C25_EventsHaveOwnIds ==
    /\ \A j \in 1..Len(calls), k \in 1..Len(calls) :
          j # k => calls[j].ret # calls[k].ret
    /\ Cardinality({p \in DOMAIN fs.files : p[Len(p)] = "text.txt"})
          = Len(calls)

\* the provider answered the request with a result
ProviderReturned(c) ==
    /\ ~IsNone(c.ret)
    /\ ~(c.svc = "tts" /\ c.ret = Some(None))
    /\ ~FailedImageCall(c)

RejectedCalls == SelectSeq(calls, Rejected)

PersistedEvents == {id \in 1..uuid_count : ~IsNone(StoredRecord(fs, id))}

C26_Inv ==
    /\ i <= settings.num_events
    /\ Len(TextCalls) <= settings.num_events
    /\ uuid_count <= settings.num_events
    /\ (\A k \in 1..Len(calls) : ProviderReturned(calls[k])) => pc # "raised"
    /\ pc = "done" =>
          /\ Len(TextCalls) = settings.num_events
          /\ Cardinality(PersistedEvents)
                <= settings.num_events - Len(RejectedCalls)
          /\ Cardinality(EventDirs(fs, StrOfDate(settings.today)))
                <= settings.num_events - Len(RejectedCalls)
    /\ (calls # <<>> /\ calls[Len(calls)].svc = "text") =>
          \A k \in 1..Len(RejectedCalls) :
              \E j \in 1..Len(calls[Len(calls)].arg) :
                  calls[Len(calls)].arg[j] = RejectedCalls[k].arg

\* every step is taken before the run has ended and brings it closer to its
\* end: a request is issued, an event is created or a slot is finished
C26_Progress ==
    /\ ~Ended
    /\ Len(calls') + uuid_count' + i' > Len(calls) + uuid_count + i

\* C26: generate_events makes exactly num_events text requests when every
\* provider request returns a result, and then stops: a rejected slot is not
\* tried again, so with r rejections at most num_events - r events are
\* persisted, and the rejected texts stay in the list passed to the later
\* text requests.
C26_ExactlyNumEventsSlots == [](C26_Inv) /\ [][C26_Progress]_vars

\* a run of three slots ended with one slot rejected and two events stored
C26_Witness ==
    /\ pc = "done"
    /\ settings.num_events = 3
    /\ Len(TextCalls) = 3
    /\ Len(RejectedCalls) = 1
    /\ RejectedCalls[1].slot = 0
    /\ Cardinality(PersistedEvents) = 2
    /\ TextCalls[3].arg[1] = RejectedCalls[1].arg

\* tags in lower case and without spaces
NormalTags == {"apollo", "moonlanding", "history", "ai", "today"}

VideoDataOf(id) ==
    SelectSeq(calls, LAMBDA c : c.svc = "video_data" /\ c.arg = id)

C27_Inv ==
    /\ \A k \in 1..Len(calls) :
          LET r == Get(StoredRecord(fs, calls[k].arg))
              tags == Get(calls[k].ret).tags
              own == IF IsNone(r.tags) THEN <<>> ELSE Get(r.tags)
          IN  /\ ~IsNone(r.video_file_path)
              /\ HasFile(fs, Get(r.video_file_path))
              /\ Len(tags) = Len(own) + Len(default_video_tags)
              /\ \A j \in 1..Len(tags) : tags[j] \in NormalTags
              /\ \A j \in 1..Len(own) :
                    /\ own[j] = "Apollo" => tags[j] = "apollo"
                    /\ own[j] = "Moon Landing" => tags[j] = "moonlanding"
              /\ SubSeq(tags, Len(own) + 1, Len(tags)) = default_video_tags
    /\ pc = "done" =>
          \A id \in UUIDs :
              LET r == StoredRecord(fs, id) IN
              Len(VideoDataOf(id))
                  = IF /\ ~IsNone(r)
                       /\ ~IsNone(Get(r).video_file_path)
                       /\ HasFile(fs, Get(Get(r).video_file_path))
                    THEN 1 ELSE 0

\* C27: the upload command leaves the store unchanged and skips every event
\* without a video path or without its video file; for every other event the
\* tag list of the video data is the event's own tags in their stored order,
\* then the default tags, each in lower case and without spaces.
C27_UploadReadsOnly == [](C27_Inv) /\ [][fs' = fs]_vars

\* one event was skipped for its missing video file; the video data of the
\* other carries its two tags and the three default tags
C27_Witness ==
    /\ pc = "done"
    /\ Len(calls) = 1
    /\ calls[1].arg = 2
    /\ ~IsNone(StoredRecord(fs, 1))
    /\ ~IsNone(Get(StoredRecord(fs, 1)).video_file_path)
    /\ Get(calls[1].ret).tags
          = <<"moonlanding", "apollo", "history", "ai", "today">>

====
